---- MODULE Spec2Model ----
(***************************************************************************)
(* Model of the sf-profile-full plugin: the batched readMetadata()         *)
(* retrieval (retrieveProfiles), the document builder (buildProfileXml,    *)
(* removeMetaKeys), the cleaner (cleanProfileXml) and the command's run()  *)
(* loop that writes the files and reconciles the outcomes.                 *)
(*                                                                         *)
(* A metadata value is a tree:                                             *)
(*   [t |-> "prim", p |-> text]      a primitive (null, string, number...) *)
(*   [t |-> "seq",  e |-> <<tree>>]  a JavaScript array                    *)
(*   [t |-> "rec",  f |-> <<[k, v]>>] an object; f lists its own entries   *)
(*                                   in Object.entries() order             *)
(***************************************************************************)
EXTENDS Naturals, Sequences, FiniteSets

\* ------------------------------------------------------------------ bounds
\* Longest identifier list of a run.
MaxLen == 11
\* All identifier lists up to this length are tried; longer ones alternate names.
MaxShort == 2
\* Most entries, over a run, of the answers that are not the org's own answer to
\* the batch asked for.
MaxResp == 2
\* Most clean/write failures injected in one run.
MaxWriteFail == 1
\* Deepest nesting of containers in a tree given to removeMetaKeys.
MaxDepth == 2
\* Most top-level fields of a document given to cleanProfileXml on its own.
MaxFields == 2

\* ------------------------------------------------------- program constants
BATCH_SIZE == 10
XML_DECLARATION == "<?xml version=\"1.0\" encoding=\"UTF-8\"?>\n"
PROFILE_XMLNS == "http://soap.sforce.com/2006/04/metadata"
NOT_FOUND_ERROR == "Profile not found in org or not returned by readMetadata()"

\* ------------------------------------------------------------ sequences
RECURSIVE Flatten(_)
Flatten(ss) == IF ss = <<>> THEN <<>> ELSE Head(ss) \o Flatten(Tail(ss))

Range(s) == {s[i] : i \in 1..Len(s)}

Min(a, b) == IF a < b THEN a ELSE b

\* arr.slice(from, to) with 0-based from (inclusive) and to (exclusive).
Slice(arr, from, to) ==
    [i \in 1..(Min(to, Len(arr)) - Min(from, Len(arr))) |-> arr[Min(from, Len(arr)) + i]]

\* ------------------------------------------------------------------ trees
Prim(p) == [t |-> "prim", p |-> p]
SeqOf(e) == [t |-> "seq", e |-> e]
Rec(f) == [t |-> "rec", f |-> f]
Field(k, v) == [k |-> k, v |-> v]

\* JavaScript null and undefined, and the falsy empty string.
Null == Prim("null")
Undefined == Prim("undefined")
EmptyString == Prim("")

Keys(obj) == {obj.f[i].k : i \in 1..Len(obj.f)}

\* obj[key]: the value of the entry, undefined when the object has none.
Get(obj, key) ==
    IF obj.t = "rec" /\ key \in Keys(obj)
    THEN (CHOOSE x \in Range(obj.f) : x.k = key).v
    ELSE Undefined

\* !value for the values a fullName can take here.
Falsy(value) == value \in {Null, Undefined, EmptyString}

\* ----------------------------------------------------------- removeMetaKeys
MetaKeys == {"$", "type"}

\* removeMetaKeys that does not walk into arrays.
RECURSIVE removeMetaKeys_skipArrays(_)
removeMetaKeys_skipArrays(obj) ==
    IF obj.t = "rec"
    THEN LET kept == SelectSeq(obj.f, LAMBDA x : x.k \notin MetaKeys)
         IN  Rec([i \in 1..Len(kept) |->
                    Field(kept[i].k, removeMetaKeys_skipArrays(kept[i].v))])
    ELSE obj

RECURSIVE removeMetaKeys(_)
removeMetaKeys(obj) ==
    IF obj.t = "seq"
    THEN SeqOf([i \in 1..Len(obj.e) |-> removeMetaKeys(obj.e[i])])
    ELSE IF obj.t = "rec"
    THEN LET kept == SelectSeq(obj.f, LAMBDA x : x.k \notin MetaKeys)
         IN  Rec([i \in 1..Len(kept) |-> Field(kept[i].k, removeMetaKeys(kept[i].v))])
    ELSE obj

\* -------------------------------------------------------------- chunkArray
\* chunkArray with the loop stopping at the last full chunk (i + size <= length).
RECURSIVE chunkFrom_fullOnly(_, _, _)
chunkFrom_fullOnly(arr, size, i) ==
    IF i + size <= Len(arr)
    THEN <<Slice(arr, i, i + size)>> \o chunkFrom_fullOnly(arr, size, i + size)
    ELSE <<>>

RECURSIVE chunkFrom(_, _, _)
chunkFrom(arr, size, i) ==
    IF i < Len(arr)
    THEN <<Slice(arr, i, i + size)>> \o chunkFrom(arr, size, i + size)
    ELSE <<>>

chunkArray(arr, size) == chunkFrom(arr, size, 0)

\* -------------------------------------------------- XMLBuilder / XMLParser
(***************************************************************************)
(* XML text is kept as what it spells: the declaration line, if any, and   *)
(* the elements in document order.  An element is                          *)
(*   [tag, attrs |-> <<[k, v]>>, kids |-> <<element>>, text, sc]           *)
(* where sc tells the self-closing spelling <tag/> from <tag></tag>.       *)
(* Two texts are byte-identical exactly when these structures are equal:   *)
(* the builder's indentation is a function of the structure.               *)
(***************************************************************************)
El(tag, attrs, kids, text, sc) ==
    [tag |-> tag, attrs |-> attrs, kids |-> kids, text |-> text, sc |-> sc]

\* attributeNamePrefix "@_": the keys the builder writes as attributes.
AttrKeys == {"@_xmlns"}
IsAttr(k) == k \in AttrKeys
AttrName(k) == IF k = "@_xmlns" THEN "xmlns" ELSE k
AttrKey(n) == IF n = "xmlns" THEN "@_xmlns" ELSE n

\* The keys j2x sees when it walks an array as an object: its indexes.
IndexKeys == <<"0", "1", "2", "3", "4", "5", "6", "7", "8", "9">>
AsObject(v) ==
    IF v.t = "seq" THEN Rec([i \in 1..Len(v.e) |-> Field(IndexKeys[i], v.e[i])]) ELSE v

\* The builder writes a primitive as its text; null and undefined are not text.
TextOf(v) == IF v.t = "prim" /\ v \notin {Null, Undefined} THEN v.p ELSE ""

Attrs(obj) ==
    LET a == SelectSeq(obj.f, LAMBDA x : IsAttr(x.k))
    IN  [i \in 1..Len(a) |-> Field(AttrName(a[i].k), TextOf(a[i].v))]

RECURSIVE Children(_)
RECURSIVE Elems(_, _)
\* XMLBuilder.j2x: the elements one entry (k, v) of an object is written as.
Elems(k, v) ==
    IF v = Undefined THEN <<>>
    ELSE IF v = Null THEN <<El(k, <<>>, <<>>, "", TRUE)>>
    ELSE IF v.t = "prim" THEN <<El(k, <<>>, <<>>, v.p, FALSE)>>
    ELSE IF v.t = "rec" THEN <<El(k, Attrs(v), Children(v), "", FALSE)>>
    ELSE Flatten([i \in 1..Len(v.e) |->
            IF v.e[i].t = "seq"
            THEN <<El(k, <<>>, Children(AsObject(v.e[i])), "", FALSE)>>
            ELSE Elems(k, v.e[i])])

Children(obj) ==
    Flatten([i \in 1..Len(obj.f) |->
        IF IsAttr(obj.f[i].k) THEN <<>> ELSE Elems(obj.f[i].k, obj.f[i].v)])

\* new XMLBuilder(builderOptions).build(obj)
XMLBuilder_build(obj) == Children(obj)

\* A string: the declaration (or none) followed by built elements.
XmlText(decl, nodes) == [decl |-> decl, nodes |-> nodes]

\* ---------------------------------------------------------- buildProfileXml
\* { ...rest } of an object without one key.
Without(obj, key) == Rec(SelectSeq(obj.f, LAMBDA x : x.k # key))

\* { first, ...obj }: an entry of obj with first's key takes first's place.
Spread(first, obj) ==
    IF first.k \in Keys(obj)
    THEN Rec(<<Field(first.k, Get(obj, first.k))>> \o Without(obj, first.k).f)
    ELSE Rec(<<first>> \o obj.f)

\* wrapped without the destructuring that sets fullName aside.
wrapped_keepName(profile) ==
    Rec(<<Field("Profile",
                Spread(Field("@_xmlns", Prim(PROFILE_XMLNS)), removeMetaKeys(profile)))>>)

\* The object buildProfileXml hands to the builder: { Profile: {...} }.
wrapped(profile) ==
    LET cleaned == removeMetaKeys(profile)
        profileBody == Without(cleaned, "fullName")
    IN  Rec(<<Field("Profile", Spread(Field("@_xmlns", Prim(PROFILE_XMLNS)), profileBody))>>)

buildProfileXml(profile) == XmlText(XML_DECLARATION, XMLBuilder_build(wrapped(profile)))

\* ---------------------------------------------------------- cleanProfileXml
\* parseTagValue + trimValues: the text of an element as the value the parser
\* gives and the builder writes back: a number in its shortest form, plain text
\* trimmed, the content of a CDATA section as it stands (the parser does not trim
\* it).
ParseTagValue(text) ==
    IF text = "1.0" THEN "1"
    ELSE IF text = " x " THEN "x"
    ELSE IF text = "<![CDATA[ x ]]>" THEN " x "
    ELSE text

\* The tags of a forest in order of first appearance.
RECURSIVE TagsInOrder(_)
TagsInOrder(nodes) ==
    IF nodes = <<>> THEN <<>>
    ELSE <<Head(nodes).tag>>
         \o TagsInOrder(SelectSeq(Tail(nodes), LAMBDA x : x.tag # Head(nodes).tag))

RECURSIVE ParseNodes(_, _)
\* The value the parser gives one element.
ParseEl(el) ==
    IF el.kids = <<>> /\ el.attrs = <<>>
    THEN Prim(ParseTagValue(el.text))
    ELSE ParseNodes(el.attrs, el.kids)

\* preserveOrder: false: attributes first, then one key per tag, a repeated tag
\* as the array of its elements' values.
ParseNodes(attrs, nodes) ==
    LET tags == TagsInOrder(nodes)
        same(tag) == SelectSeq(nodes, LAMBDA x : x.tag = tag)
        value(tag) ==
            IF Len(same(tag)) = 1
            THEN ParseEl(same(tag)[1])
            ELSE SeqOf([i \in 1..Len(same(tag)) |-> ParseEl(same(tag)[i])])
    IN  Rec([i \in 1..Len(attrs) |-> Field(AttrKey(attrs[i].k), Prim(attrs[i].v))]
            \o [i \in 1..Len(tags) |-> Field(tags[i], value(tags[i]))])

\* new XMLParser(parserOptions).parse(xml), without the "?xml" entry of the declaration.
XMLParser_parse(xml) == ParseNodes(<<>>, xml.nodes)

\* !profile for a parsed value: missing, empty text, 0 or false.
FalsyParsed(v) == Falsy(v) \/ v \in {Prim("0"), Prim("false")}

\* delete obj[key]
Delete(obj, key) == IF obj.t = "rec" THEN Without(obj, key) ELSE obj

DEFAULT_CLEAN_OPTIONS ==
    [removeLoginIpRanges |-> TRUE, removeUserLicense |-> TRUE, removeLoginHours |-> TRUE]

\* cleanProfileXml without the early return for a missing Profile root.
cleanProfileXml_noEarlyReturn(xml, options) ==
    LET parsed == XMLParser_parse(xml)
        profile == Get(parsed, "Profile")
        p1 == IF options.removeLoginIpRanges THEN Delete(profile, "loginIpRanges") ELSE profile
        p2 == IF options.removeUserLicense THEN Delete(p1, "userLicense") ELSE p1
        p3 == IF options.removeLoginHours THEN Delete(p2, "loginHours") ELSE p2
    IN  XmlText(XML_DECLARATION, XMLBuilder_build(Rec(<<Field("Profile", p3)>>)))

cleanProfileXml(xml, options) ==
    LET parsed == XMLParser_parse(xml)
        profile == Get(parsed, "Profile")
        p1 == IF options.removeLoginIpRanges THEN Delete(profile, "loginIpRanges") ELSE profile
        p2 == IF options.removeUserLicense THEN Delete(p1, "userLicense") ELSE p1
        p3 == IF options.removeLoginHours THEN Delete(p2, "loginHours") ELSE p2
    IN  IF FalsyParsed(profile)
        THEN xml
        ELSE XmlText(XML_DECLARATION, XMLBuilder_build(Rec(<<Field("Profile", p3)>>)))

\* ------------------------------------------------ writeProfileToSourceFormat
\* path.join(outputDir, `${profileName}.profile-meta.xml`); outputDir is fixed.
FilePath(profileName) == <<"outputDir", profileName, ".profile-meta.xml">>

\* ------------------------------------------------------------------ inputs
Names == {"A", "B"}

\* "A", "B", "A", ... : the long identifier lists.
Alternating(n) == [i \in 1..n |-> IF i % 2 = 1 THEN "A" ELSE "B"]

\* The resolved profileNames of a run (--name, --sourcedir or --all).
InputLists ==
    UNION {[1..k -> Names] : k \in 0..MaxShort}
    \cup {Alternating(n) : n \in {BATCH_SIZE - 1, BATCH_SIZE, MaxLen}}

\* What the org holds under a name: a Profile as jsforce hands it over.
ProfileRecord(name) ==
    Rec(<<Field("$", Rec(<<Field("xsi:type", Prim("Profile"))>>)),
          Field("fullName", Prim(name)),
          Field("custom", Prim("false")),
          Field("userLicense", Prim("Salesforce"))>>)

\* An entry of a read's answer: the item, and whether building its XML raises
\* (a shape the builder or the recursion cannot take).
Entry(item, raises) == [item |-> item, raises |-> raises]

NullEntry == Entry(Null, FALSE)
NoNameEntry == Entry(Rec(<<Field("noName", Prim("true"))>>), FALSE)
EmptyNameEntry == Entry(Rec(<<Field("fullName", EmptyString)>>), FALSE)
Found(name) == Entry(ProfileRecord(name), FALSE)

\* The entries of the answers that follow no request.
Entries ==
    {NullEntry, EmptyNameEntry}
    \cup {Found(n) : n \in Names}
    \cup {Entry(ProfileRecord("A"), TRUE)}

ArrayRaw(items) == [kind |-> "array", items |-> items]
SingleRaw(item) == [kind |-> "single", item |-> item]

\* The org's own answer when it holds the profiles named in have: one entry per
\* identifier asked for, in order, without a fullName when there is no such
\* profile; a bare record when one identifier was asked for.
Echo(batch, have) ==
    LET answer(n) == IF n \in have THEN Found(n) ELSE NoNameEntry
    IN  IF Len(batch) = 1
        THEN SingleRaw(answer(batch[1]))
        ELSE ArrayRaw([i \in 1..Len(batch) |-> answer(batch[i])])

\* Whether an answer is the org's own answer to the batch.
IsEcho(raw, batch) == \E have \in SUBSET Names : raw = Echo(batch, have)

\* The entries of the first k answers that are not the org's own answer.
RECURSIVE Spent(_, _, _)
Spent(asked, answered, k) ==
    IF k = 0 THEN 0
    ELSE Spent(asked, answered, k - 1)
         + (IF IsEcho(answered[k], asked[k]) THEN 0
            ELSE IF answered[k].kind = "array" THEN Len(answered[k].items) ELSE 1)

\* The answers that follow no request, of at most budget entries.
Arbitrary(budget) ==
    {ArrayRaw(a) : a \in UNION {[1..k -> Entries] : k \in 0..budget}}
    \cup (IF budget >= 1 THEN {SingleRaw(e) : e \in Entries \cup {NoNameEntry}} ELSE {})

\* Every answer connection.metadata.read() resolves with in the model: the org's
\* own answers, and any answer within what is left of MaxResp.
Responses(batch, spent) ==
    Arbitrary(MaxResp - spent) \cup {Echo(batch, have) : have \in SUBSET Names}

\* ---------------------------------------------------------- retrieveProfiles
\* normalize taking whatever is not an array for an empty answer.
normalize_dropSingle(raw) == IF raw.kind = "array" THEN raw.items ELSE <<>>

\* Array.isArray(raw) ? raw : [raw]
normalize(raw) == IF raw.kind = "array" THEN raw.items ELSE <<raw.item>>

\* skipped testing the item alone (!item).
skipped_nullOnly(e) == Falsy(e.item)

\* !item || !item.fullName
skipped(e) == Falsy(e.item) \/ Falsy(Get(e.item, "fullName"))

toProfile(e) == [fullName |-> Get(e.item, "fullName").p, xml |-> buildProfileXml(e.item)]

\* processItems with unshift for push: an answer's profiles end up reversed.
RECURSIVE processItems_unshift(_)
processItems_unshift(items) ==
    IF items = <<>> THEN [pushed |-> <<>>, raised |-> FALSE]
    ELSE IF skipped(Head(items)) THEN processItems_unshift(Tail(items))
    ELSE IF Head(items).raises THEN [pushed |-> <<>>, raised |-> TRUE]
    ELSE LET rest == processItems_unshift(Tail(items))
         IN  [pushed |-> rest.pushed \o <<toProfile(Head(items))>>, raised |-> rest.raised]

\* The inner for loop over one answer's items: the profiles pushed, and whether
\* buildProfileXml raised (the loop stops there).
RECURSIVE processItems(_)
processItems(items) ==
    IF items = <<>> THEN [pushed |-> <<>>, raised |-> FALSE]
    ELSE IF skipped(Head(items)) THEN processItems(Tail(items))
    ELSE IF Head(items).raises THEN [pushed |-> <<>>, raised |-> TRUE]
    ELSE LET rest == processItems(Tail(items))
         IN  [pushed |-> <<toProfile(Head(items))>> \o rest.pushed, raised |-> rest.raised]

\* ------------------------------------------------------------ tree inputs
TreeKeys == {"$", "type", "a", "fullName"}
Leaves == {Prim("A"), Prim("false")}

\* The shapes of a container that holds a tree x, alone or beside one primitive
\* (before or after it): a record by its keys, a sequence by the place of x.
KeyPairs == {<<"$", "a">>, <<"a", "$">>, <<"type", "a">>, <<"a", "type">>,
             <<"a", "fullName">>, <<"$", "type">>}
Shapes ==
    {<<"rec1", k, k>> : k \in TreeKeys}
    \cup {<<"rec2", kj[1], kj[2]>> : kj \in KeyPairs}
    \cup {<<"rec2r", kj[1], kj[2]>> : kj \in KeyPairs}
    \cup {<<"seq1", "", "">>, <<"seq2", "", "">>, <<"seq2r", "", "">>}

Wrap(shape, x) ==
    CASE shape[1] = "rec1" -> Rec(<<Field(shape[2], x)>>)
      [] shape[1] = "rec2" -> Rec(<<Field(shape[2], x), Field(shape[3], Prim("false"))>>)
      [] shape[1] = "rec2r" -> Rec(<<Field(shape[3], Prim("false")), Field(shape[2], x)>>)
      [] shape[1] = "seq1" -> SeqOf(<<x>>)
      [] shape[1] = "seq2" -> SeqOf(<<x, Prim("false")>>)
      [] OTHER -> SeqOf(<<Prim("false"), x>>)

\* The trees nested at most d containers deep.
RECURSIVE TreesUpTo(_)
TreesUpTo(d) ==
    IF d = 0 THEN Leaves \cup {Rec(<<>>), SeqOf(<<>>)}
    ELSE LET sub == TreesUpTo(d - 1)
         IN  sub \cup {Wrap(shape, x) : shape \in Shapes, x \in sub}

\* ------------------------------------------------------------------- state
VARIABLES
    pc,            \* where run() stands
    profileNames,  \* the resolved identifier list
    shouldClean,   \* flags.clean
    batches,       \* retrieveProfiles: chunkArray(profileNames, BATCH_SIZE)
    batchIdx,      \* retrieveProfiles: the batch the for loop is at (1-based)
    calls,         \* the identifier lists handed to metadata.read(), in order
    raws,          \* what each read resolved with, in order
    svcResults,    \* retrieveProfiles: its local results array
    retrieved,     \* run: const retrieved
    procIdx,       \* run: the retrieved profile the for loop is at (1-based)
    results,       \* run: const results, the outcomes
    files,         \* the writeFileSync calls that went through, in order
    failures,      \* clean/write failures so far
    thrown,        \* the error run() rejected with, "" for none
    ret,           \* the ProfileRetrieveFullResult run() returned
    tree,          \* a value handed to removeMetaKeys / buildProfileXml on its own
    normalized,    \* what removeMetaKeys returned for tree
    document,      \* what buildProfileXml returned for tree
    rawXml,        \* a document handed to cleanProfileXml on its own
    options,       \* the CleanOptions handed with it
    cleaned,       \* what cleanProfileXml returned for rawXml
    recleaned      \* what cleanProfileXml returned for cleaned

treeVars == <<tree, normalized, document>>

cleanVars == <<rawXml, options, cleaned, recleaned>>

vars == <<pc, profileNames, shouldClean, batches, batchIdx, calls, raws, svcResults,
          retrieved, procIdx, results, files, failures, thrown, ret, treeVars, cleanVars>>

NoDocument == XmlText("", <<>>)

NoResult == [profiles |-> <<>>, totalRequested |-> 0, totalSuccess |-> 0, totalFailed |-> 0]

Init ==
    /\ pc = "resolved"
    /\ profileNames \in InputLists
    /\ shouldClean \in BOOLEAN
    /\ batches = <<>>
    /\ batchIdx = 1
    /\ calls = <<>>
    /\ raws = <<>>
    /\ svcResults = <<>>
    /\ retrieved = <<>>
    /\ procIdx = 1
    /\ results = <<>>
    /\ files = <<>>
    /\ failures = 0
    /\ thrown = ""
    /\ ret = NoResult
    /\ tree = Null
    /\ normalized = Null
    /\ document = NoDocument
    /\ rawXml = NoDocument
    /\ options = DEFAULT_CLEAN_OPTIONS
    /\ cleaned = NoDocument
    /\ recleaned = NoDocument

\* run() calls retrieveProfiles, which chunks the names.
CallRetrieve ==
    /\ pc = "resolved"
    /\ batches' = chunkArray(profileNames, BATCH_SIZE)
    /\ pc' = "batchLoop"
    /\ UNCHANGED <<treeVars, cleanVars, profileNames, shouldClean, batchIdx, calls, raws, svcResults,
                   retrieved, procIdx, results, files, failures, thrown, ret>>

\* IssueRead without the await: the reads of all batches are started one after
\* the other (Promise.all over the batches), whatever is still outstanding.
IssueRead_noAwait ==
    /\ pc \in {"batchLoop", "awaitRead"}
    /\ Len(calls) < Len(batches)
    /\ calls' = Append(calls, batches[Len(calls) + 1])
    /\ pc' = "awaitRead"
    /\ UNCHANGED <<treeVars, cleanVars, profileNames, shouldClean, batches, batchIdx, raws, svcResults,
                   retrieved, procIdx, results, files, failures, thrown, ret>>

\* for (const batch of batches): the next read is issued and awaited.
IssueRead ==
    /\ pc = "batchLoop"
    /\ batchIdx <= Len(batches)
    /\ calls' = Append(calls, batches[batchIdx])
    /\ pc' = "awaitRead"
    /\ UNCHANGED <<treeVars, cleanVars, profileNames, shouldClean, batches, batchIdx, raws, svcResults,
                   retrieved, procIdx, results, files, failures, thrown, ret>>

\* The read resolves; its items are walked before the next batch is taken.  A
\* buildProfileXml that raises is not caught: retrieveProfiles and run() reject.
ReadResolve ==
    /\ pc = "awaitRead"
    /\ \E raw \in Responses(batches[batchIdx], Spent(calls, raws, Len(raws))) :
        LET done == processItems(normalize(raw))
        IN  /\ raws' = Append(raws, raw)
            /\ svcResults' = svcResults \o done.pushed
            /\ IF done.raised
               THEN /\ pc' = "failed"
                    /\ thrown' = "build"
                    /\ batchIdx' = batchIdx
               ELSE /\ pc' = "batchLoop"
                    /\ thrown' = thrown
                    /\ batchIdx' = batchIdx + 1
    /\ UNCHANGED <<treeVars, cleanVars, profileNames, shouldClean, batches, calls, retrieved, procIdx,
                   results, files, failures, ret>>

\* ReadReject with a catch around the read that logs and goes on to the next batch.
ReadReject_swallowed ==
    /\ pc = "awaitRead"
    /\ pc' = "batchLoop"
    /\ thrown' = "read"
    /\ batchIdx' = batchIdx + 1
    /\ UNCHANGED <<treeVars, cleanVars, profileNames, shouldClean, batches, calls, raws, svcResults,
                   retrieved, procIdx, results, files, failures, ret>>

\* The read rejects: nothing catches it, run() rejects.
ReadReject ==
    /\ pc = "awaitRead"
    /\ pc' = "failed"
    /\ thrown' = "read"
    /\ UNCHANGED <<treeVars, cleanVars, profileNames, shouldClean, batches, batchIdx, calls, raws, svcResults,
                   retrieved, procIdx, results, files, failures, ret>>

\* ReturnRetrieved with the results put in the order of the request first.
ReturnRetrieved_sortedByRequest ==
    /\ pc = "batchLoop"
    /\ batchIdx > Len(batches)
    /\ retrieved' = Flatten([i \in 1..Len(profileNames) |->
                        SelectSeq(svcResults, LAMBDA r : r.fullName = profileNames[i])])
    /\ pc' = "profileLoop"
    /\ UNCHANGED <<treeVars, cleanVars, profileNames, shouldClean, batches, batchIdx, calls, raws, svcResults,
                   procIdx, results, files, failures, thrown, ret>>

\* retrieveProfiles returns its results to run().
ReturnRetrieved ==
    /\ pc = "batchLoop"
    /\ batchIdx > Len(batches)
    /\ retrieved' = svcResults
    /\ pc' = "profileLoop"
    /\ UNCHANGED <<treeVars, cleanVars, profileNames, shouldClean, batches, batchIdx, calls, raws, svcResults,
                   procIdx, results, files, failures, thrown, ret>>

Success(name, filePath) == [name |-> name, success |-> TRUE, filePath |-> filePath]
Failure(name, error) == [name |-> name, success |-> FALSE, error |-> error]

\* One pass of run()'s loop over retrieved, try and catch included: the profile
\* is cleaned (with --clean) and written, or one of the two raises.
ProcessProfile ==
    /\ pc = "profileLoop"
    /\ procIdx <= Len(retrieved)
    /\ LET profile == retrieved[procIdx]
           xml == IF shouldClean
                  THEN cleanProfileXml(profile.xml, DEFAULT_CLEAN_OPTIONS)
                  ELSE profile.xml
           filePath == FilePath(profile.fullName)
       IN  \E fault \in {"none", "clean", "write"} :
            /\ fault = "clean" => shouldClean
            /\ fault # "none" => failures < MaxWriteFail
            /\ IF fault = "none"
               THEN /\ files' = Append(files, [path |-> filePath, content |-> xml])
                    /\ results' = Append(results, Success(profile.fullName, filePath))
                    /\ failures' = failures
               ELSE /\ files' = files
                    /\ results' = Append(results, Failure(profile.fullName, fault))
                    /\ failures' = failures + 1
    /\ procIdx' = procIdx + 1
    /\ UNCHANGED <<treeVars, cleanVars, pc, profileNames, shouldClean, batches, batchIdx, calls, raws,
                   svcResults, retrieved, thrown, ret>>

\* Reconcile comparing by position: the names beyond the retrieved count are absent.
Reconcile_positional ==
    /\ pc = "profileLoop"
    /\ procIdx > Len(retrieved)
    /\ LET absent == SubSeq(profileNames, Len(retrieved) + 1, Len(profileNames))
       IN  results' = results \o [i \in 1..Len(absent) |-> Failure(absent[i], NOT_FOUND_ERROR)]
    /\ pc' = "reconciled"
    /\ UNCHANGED <<treeVars, cleanVars, profileNames, shouldClean, batches, batchIdx, calls, raws, svcResults,
                   retrieved, procIdx, files, failures, thrown, ret>>

\* Reconcile taking the names of the success outcomes for the retrieved names.
Reconcile_bySuccess ==
    /\ pc = "profileLoop"
    /\ procIdx > Len(retrieved)
    /\ LET retrievedNames == {results[i].name : i \in {j \in 1..Len(results) : results[j].success}}
           absent == SelectSeq(profileNames, LAMBDA n : n \notin retrievedNames)
       IN  results' = results \o [i \in 1..Len(absent) |-> Failure(absent[i], NOT_FOUND_ERROR)]
    /\ pc' = "reconciled"
    /\ UNCHANGED <<treeVars, cleanVars, profileNames, shouldClean, batches, batchIdx, calls, raws, svcResults,
                   retrieved, procIdx, files, failures, thrown, ret>>

\* Step 5: the names the API returned nothing for.
Reconcile ==
    /\ pc = "profileLoop"
    /\ procIdx > Len(retrieved)
    /\ LET retrievedNames == {retrieved[i].fullName : i \in 1..Len(retrieved)}
           absent == SelectSeq(profileNames, LAMBDA n : n \notin retrievedNames)
       IN  results' = results \o [i \in 1..Len(absent) |-> Failure(absent[i], NOT_FOUND_ERROR)]
    /\ pc' = "reconciled"
    /\ UNCHANGED <<treeVars, cleanVars, profileNames, shouldClean, batches, batchIdx, calls, raws, svcResults,
                   retrieved, procIdx, files, failures, thrown, ret>>

\* The totals are counted and the result returned.
Return ==
    /\ pc = "reconciled"
    /\ ret' = [profiles |-> results,
               totalRequested |-> Len(profileNames),
               totalSuccess |-> Len(SelectSeq(results, LAMBDA r : r.success)),
               totalFailed |-> Len(SelectSeq(results, LAMBDA r : ~r.success))]
    /\ pc' = "done"
    /\ UNCHANGED <<treeVars, cleanVars, profileNames, shouldClean, batches, batchIdx, calls, raws, svcResults,
                   retrieved, procIdx, results, files, failures, thrown>>

Next ==
    \/ CallRetrieve
    \/ IssueRead
    \/ ReadResolve
    \/ ReadReject
    \/ ReturnRetrieved
    \/ ProcessProfile
    \/ Reconcile
    \/ Return

Spec == Init /\ [][Next]_vars

\* ------------------------------------------- the pure functions on their own
InitTree ==
    /\ pc = "tree"
    /\ tree \in TreesUpTo(MaxDepth)
    /\ normalized = Null
    /\ document = NoDocument
    /\ profileNames = <<>>
    /\ shouldClean = FALSE
    /\ batches = <<>>
    /\ batchIdx = 1
    /\ calls = <<>>
    /\ raws = <<>>
    /\ svcResults = <<>>
    /\ retrieved = <<>>
    /\ procIdx = 1
    /\ results = <<>>
    /\ files = <<>>
    /\ failures = 0
    /\ thrown = ""
    /\ ret = NoResult
    /\ rawXml = NoDocument
    /\ options = DEFAULT_CLEAN_OPTIONS
    /\ cleaned = NoDocument
    /\ recleaned = NoDocument

mainVars == <<profileNames, shouldClean, batches, batchIdx, calls, raws, svcResults,
              retrieved, procIdx, results, files, failures, thrown, ret>>

\* ApplyRemoveMetaKeys deleting the keys in place (delete obj[key] on the argument).
ApplyRemoveMetaKeys_inPlace ==
    /\ pc = "tree"
    /\ normalized' = removeMetaKeys(tree)
    /\ tree' = removeMetaKeys(tree)
    /\ pc' = "normalized"
    /\ UNCHANGED <<document, mainVars, cleanVars>>

\* removeMetaKeys(tree)
ApplyRemoveMetaKeys ==
    /\ pc = "tree"
    /\ normalized' = removeMetaKeys(tree)
    /\ pc' = "normalized"
    /\ UNCHANGED <<tree, document, mainVars, cleanVars>>

\* buildProfileXml(tree), for the items retrieveProfiles hands it: with a fullName.
ApplyBuildProfileXml ==
    /\ pc = "tree"
    /\ ~skipped(Entry(tree, FALSE))
    /\ normalized' = removeMetaKeys(tree)
    /\ document' = buildProfileXml(tree)
    /\ pc' = "built"
    /\ UNCHANGED <<tree, mainVars, cleanVars>>

NextTree ==
    \/ ApplyRemoveMetaKeys
    \/ ApplyBuildProfileXml

SpecTree == InitTree /\ [][NextTree]_vars

\* --------------------------------------------------- the cleaner on its own
\* <tag>text</tag>
Leaf(tag, text) == El(tag, <<>>, <<>>, text, FALSE)

\* The top-level fields of the documents: the three the cleaner knows (one of them
\* also spelled <loginHours/>), a field with those names nested in it, and fields
\* whose text the parser reads as a boolean, as a number, and from a CDATA section.
FieldPool ==
    {El("loginIpRanges", <<>>, <<Leaf("endAddress", "255.255.255.255")>>, "", FALSE),
     Leaf("userLicense", "Salesforce"),
     El("loginHours", <<>>, <<Leaf("mondayStart", "480")>>, "", FALSE),
     El("loginHours", <<>>, <<>>, "", TRUE),
     El("fieldPermissions", <<>>,
        <<Leaf("userLicense", "Salesforce"), Leaf("loginHours", "480")>>, "", FALSE),
     Leaf("custom", "false"),
     Leaf("description", "1.0"),
     Leaf("description", "<![CDATA[ x ]]>")}

\* With the XML declaration or without.
Decls == {"", XML_DECLARATION}

\* The documents with a Profile root of at most n top-level fields.
ProfileDocs(n) ==
    {XmlText(d, <<El("Profile", a, kids, "", FALSE)>>) :
        d \in Decls,
        a \in {<<>>, <<Field("xmlns", PROFILE_XMLNS)>>},
        kids \in UNION {[1..k -> FieldPool] : k \in 0..n}}

\* The documents without a Profile record at the root: empty, another root, a
\* Profile below another root, and Profile roots the parser gives no content for.
OtherDocs ==
    {XmlText(d, nodes) :
        d \in Decls,
        nodes \in {<<>>,
                   <<Leaf("Something", "test")>>,
                   <<El("Package", <<>>,
                        <<El("Profile", <<>>, <<Leaf("userLicense", "Salesforce")>>, "", FALSE)>>,
                        "", FALSE)>>,
                   <<El("Profile", <<>>, <<>>, "", TRUE)>>,
                   <<Leaf("Profile", "0")>>}}

Documents(n) == ProfileDocs(n) \cup OtherDocs

\* The 8 cleaning configurations.
CleanConfigs ==
    [removeLoginIpRanges : BOOLEAN, removeUserLicense : BOOLEAN, removeLoginHours : BOOLEAN]

InitClean ==
    /\ pc = "clean"
    /\ rawXml \in Documents(MaxFields)
    /\ options \in CleanConfigs
    /\ cleaned = NoDocument
    /\ recleaned = NoDocument
    /\ tree = Null
    /\ normalized = Null
    /\ document = NoDocument
    /\ profileNames = <<>>
    /\ shouldClean = FALSE
    /\ batches = <<>>
    /\ batchIdx = 1
    /\ calls = <<>>
    /\ raws = <<>>
    /\ svcResults = <<>>
    /\ retrieved = <<>>
    /\ procIdx = 1
    /\ results = <<>>
    /\ files = <<>>
    /\ failures = 0
    /\ thrown = ""
    /\ ret = NoResult

\* cleanProfileXml(rawXml, options)
ApplyClean ==
    /\ pc = "clean"
    /\ cleaned' = cleanProfileXml(rawXml, options)
    /\ pc' = "cleaned"
    /\ UNCHANGED <<rawXml, options, recleaned, treeVars, mainVars>>

\* cleanProfileXml(cleaned, options): the cleaned document is cleaned again.
ApplyCleanAgain ==
    /\ pc = "cleaned"
    /\ recleaned' = cleanProfileXml(cleaned, options)
    /\ pc' = "recleaned"
    /\ UNCHANGED <<rawXml, options, cleaned, treeVars, mainVars>>

NextClean ==
    \/ ApplyClean
    \/ ApplyCleanAgain

SpecClean == InitClean /\ [][NextClean]_vars

\* ================================================================== claims
\* retrieveProfiles has returned to run().
Returned == pc \in {"profileLoop", "reconciled", "done"}

CeilDiv(n, d) == (n + d - 1) \div d

Count(s, Test(_)) == Len(SelectSeq(s, Test))

\* The entries of the answers so far, as the code lists them, in order.
AnsweredEntries == Flatten([k \in 1..Len(raws) |-> normalize(raws[k])])

\* The fullName of the entries that carry the field, whatever its value.
HasNameField(e) == e.item.t = "rec" /\ "fullName" \in Keys(e.item)

\* C1: every call carries between 1 and 10 identifiers, the calls so far
\* concatenate to a prefix of the request, and once retrieveProfiles has returned
\* there were exactly ceil(N/10) calls that concatenate to the whole request; an
\* empty request makes no call and retrieves nothing.
C1_Batching ==
    /\ \A i \in 1..Len(calls) : Len(calls[i]) >= 1 /\ Len(calls[i]) <= BATCH_SIZE
    /\ Len(Flatten(calls)) <= Len(profileNames)
    /\ Flatten(calls) = SubSeq(profileNames, 1, Len(Flatten(calls)))
    /\ Returned =>
        /\ Len(calls) = CeilDiv(Len(profileNames), BATCH_SIZE)
        /\ Flatten(calls) = profileNames
        /\ profileNames = <<>> => calls = <<>> /\ retrieved = <<>>

C1_Witness ==
    /\ pc = "done"
    /\ Len(profileNames) = BATCH_SIZE + 1
    /\ Len(calls) = 2
    /\ Len(calls[1]) = BATCH_SIZE
    /\ Len(calls[2]) = 1

\* C2 (as claimed): a completed run reports exactly one outcome per entry of the
\* identifier list: as many outcomes as identifiers, and each name as often among
\* the outcomes as in the list.
C2_OneOutcomePerIdentifier ==
    pc = "done" =>
        /\ Len(ret.profiles) = Len(profileNames)
        /\ \A n \in Names \cup {""} :
            Count(ret.profiles, LAMBDA r : r.name = n) = Count(profileNames, LAMBDA m : m = n)

\* C3 (as claimed): an entry whose build raises costs that entry alone: run() does
\* not reject over it, and every other entry with a fullName answered so far has
\* its document in the results.
C3_BuildFailureScoped ==
    /\ thrown # "build"
    /\ Len(svcResults) = Count(AnsweredEntries, LAMBDA e : ~skipped(e) /\ ~e.raises)

\* C4: once a read has rejected, run() has failed for good: the rejected call is
\* the last one made (no retry, no later chunk), what earlier chunks brought is
\* not handed to run(), no outcome is reported and no file is written.
C4_ReadRejectionIsFatal ==
    thrown = "read" =>
        /\ pc = "failed"
        /\ Len(calls) = Len(raws) + 1
        /\ calls = SubSeq(batches, 1, Len(calls))
        /\ retrieved = <<>>
        /\ results = <<>>
        /\ files = <<>>
        /\ ret = NoResult

C4_Witness ==
    /\ thrown = "read"
    /\ Len(calls) = 2
    /\ svcResults # <<>>

\* C5: in a completed run every requested identifier that no entry of any answer
\* names has a "not found" failure among the outcomes, and every profile written
\* has its success outcome.
C5_Reconciliation ==
    pc = "done" =>
        /\ \A n \in Range(profileNames) :
            (\A i \in 1..Len(AnsweredEntries) :
                ~(HasNameField(AnsweredEntries[i])
                  /\ Get(AnsweredEntries[i].item, "fullName") = Prim(n)))
            => \E j \in 1..Len(ret.profiles) : ret.profiles[j] = Failure(n, NOT_FOUND_ERROR)
        /\ \A i \in 1..Len(files) :
            \E j \in 1..Len(ret.profiles) :
                ret.profiles[j] = Success(files[i].path[2], files[i].path)

C5_Witness ==
    /\ pc = "done"
    /\ profileNames = <<"A", "B">>
    /\ ret.profiles = <<Success("A", FilePath("A")), Failure("B", NOT_FOUND_ERROR)>>

\* The fullNames of a list of retrieved profiles, in order.
NamesOf(profiles) == [i \in 1..Len(profiles) |-> profiles[i].fullName]

\* The fullNames an answer's entries carry, empty or not, in order.
NamedIn(raw) ==
    LET named == SelectSeq(normalize(raw), LAMBDA e : ~skipped(e))
    IN  [i \in 1..Len(named) |-> Get(named[i].item, "fullName").p]

\* The request restricted to the identifiers that succeeded.
RequestRestricted ==
    SelectSeq(profileNames, LAMBDA n : n \in Range(NamesOf(retrieved)))

\* C6 (as claimed): whatever the reads answer, the fullNames of the retrieved set
\* are the request sequence restricted to the identifiers that succeeded.
C6_RequestOrderAlways == Returned => NamesOf(retrieved) = RequestRestricted

\* Every read answered, in the order asked, with one entry per identifier of its
\* batch that the org holds, for one set of held names: nothing else carries a name.
AnswersFollowRequest ==
    \E have \in SUBSET Names :
        \A k \in 1..Len(raws) :
            NamedIn(raws[k]) = SelectSeq(calls[k], LAMBDA n : n \in have)

\* C6 (amended): when every read answers in the order it was asked, one entry per
\* identifier the org holds, the fullNames of the retrieved set that
\* retrieveProfiles returns are the request sequence restricted to the identifiers
\* that succeeded.
C6_RequestOrderWhenAnswersFollow ==
    [][(pc = "batchLoop" /\ pc' = "profileLoop" /\ AnswersFollowRequest')
       => NamesOf(retrieved') = RequestRestricted']_vars

C6_Witness ==
    /\ pc = "done"
    /\ AnswersFollowRequest
    /\ Len(calls) = 2
    /\ Len(profileNames) = BATCH_SIZE + 1
    /\ NamesOf(retrieved) = <<"A", "A", "A", "A", "A", "A">>

\* The entries of the answers that are records with truthy (non-empty) fullName.
Named(e) == ~Falsy(e.item) /\ HasNameField(e) /\ ~Falsy(Get(e.item, "fullName"))

\* C7 (as claimed): once retrieveProfiles has returned, the retrieved set has one
\* element per answered entry that has the fullName field, and none for the others.
C7_OnePerEntryWithNameField ==
    Returned => Len(retrieved) = Count(AnsweredEntries, HasNameField)

\* C7 (amended): once retrieveProfiles has returned (no error raised), the
\* retrieved set has one element per answered entry whose fullName is present and
\* not empty; null entries, entries without the field and entries with an empty
\* fullName contribute nothing.
C7_OnePerNamedEntry ==
    Returned =>
        /\ thrown = ""
        /\ Len(retrieved) = Count(AnsweredEntries, Named)
        /\ \A i \in 1..Len(retrieved) : retrieved[i].fullName # ""

C7_Witness ==
    /\ Returned
    /\ raws = <<ArrayRaw(<<NullEntry, Found("A")>>)>>
    /\ NamesOf(retrieved) = <<"A">>

\* C8: a read that resolves with a bare record adds to the results exactly what the
\* item loop gives on the one-element list of that record.
C8_SingleIsOneElementList ==
    [][(Len(raws') = Len(raws) + 1 /\ raws'[Len(raws')].kind = "single")
       => svcResults' = svcResults \o processItems(<<raws'[Len(raws')].item>>).pushed]_vars

C8_Witness ==
    /\ Returned
    /\ raws = <<SingleRaw(Found("A"))>>
    /\ retrieved = processItems(<<Found("A")>>).pushed
    /\ Len(retrieved) = 1

\* No record of the tree, at any depth, has one of the keys.
RECURSIVE NoKeys(_, _)
NoKeys(x, keys) ==
    IF x.t = "rec"
    THEN /\ Keys(x) \cap keys = {}
         /\ \A i \in 1..Len(x.f) : NoKeys(x.f[i].v, keys)
    ELSE IF x.t = "seq"
    THEN \A i \in 1..Len(x.e) : NoKeys(x.e[i], keys)
    ELSE TRUE

\* out is in with the meta keys gone and all else as it was: primitives equal,
\* sequences of the same length element by element, records with the other keys
\* in the same order and their values preserved in turn.
RECURSIVE Preserved(_, _)
Preserved(in, out) ==
    IF in.t = "prim" THEN out = in
    ELSE IF in.t = "seq"
    THEN /\ out.t = "seq"
         /\ Len(out.e) = Len(in.e)
         /\ \A i \in 1..Len(in.e) : Preserved(in.e[i], out.e[i])
    ELSE LET others == SelectSeq(in.f, LAMBDA x : x.k \notin {"$", "type"})
         IN  /\ out.t = "rec"
             /\ Len(out.f) = Len(others)
             /\ \A i \in 1..Len(others) :
                    out.f[i].k = others[i].k /\ Preserved(others[i].v, out.f[i].v)

\* C9: what removeMetaKeys returns has no "$" and no "type" key at any depth, and
\* every other key, its value and the order of sequence elements are as in the input.
C9_MetaKeysRemoved ==
    pc = "normalized" =>
        /\ NoKeys(normalized, {"$", "type"})
        /\ Preserved(tree, normalized)

C9_Witness ==
    /\ pc = "normalized"
    /\ tree = SeqOf(<<Prim("false"), Rec(<<Field("$", Prim("A")), Field("a", Prim("false"))>>)>>)
    /\ normalized = SeqOf(<<Prim("false"), Rec(<<Field("a", Prim("false"))>>)>>)

\* Some element of the forest, at any depth, has the tag.
RECURSIVE HasTag(_, _)
HasTag(nodes, tag) ==
    \E i \in 1..Len(nodes) : nodes[i].tag = tag \/ HasTag(nodes[i].kids, tag)

\* C10 (as claimed): the document built from a record with a fullName has no
\* fullName element at any depth.
C10_NoFullNameAnywhere == pc = "built" => ~HasTag(document.nodes, "fullName")

\* C10 (amended): the document built from a record with a fullName is one Profile
\* root none of whose direct children is a fullName element; a fullName element
\* deeper in the document is a fullName field nested in the record, which is part
\* of the body and is not removed.
C10_NoFullNameAtTopLevel ==
    pc = "built" =>
        /\ Len(document.nodes) = 1
        /\ document.nodes[1].tag = "Profile"
        /\ \A i \in 1..Len(document.nodes[1].kids) : document.nodes[1].kids[i].tag # "fullName"
        /\ \A i \in 1..Len(document.nodes[1].kids) :
            LET kid == document.nodes[1].kids[i]
            IN  HasTag(kid.kids, "fullName") => ~NoKeys(Get(normalized, kid.tag), {"fullName"})

C10_Witness ==
    /\ pc = "built"
    /\ tree = Rec(<<Field("a", Rec(<<Field("fullName", Prim("A"))>>)),
                    Field("fullName", Prim("false"))>>)
    /\ HasTag(document.nodes, "fullName")

\* The names a configuration has enabled for removal.
EnabledNames(c) ==
    (IF c.removeLoginIpRanges THEN {"loginIpRanges"} ELSE {})
    \cup (IF c.removeUserLicense THEN {"userLicense"} ELSE {})
    \cup (IF c.removeLoginHours THEN {"loginHours"} ELSE {})

\* The document has a Profile element at its root.
HasProfileRoot(x) == \E i \in 1..Len(x.nodes) : x.nodes[i].tag = "Profile"

\* An element as what it holds, whichever way an empty element is spelled.
RECURSIVE Content(_)
Content(el) ==
    [tag |-> el.tag, attrs |-> el.attrs, text |-> el.text,
     kids |-> [i \in 1..Len(el.kids) |-> Content(el.kids[i])]]

\* The top-level fields of a document with the tag, in order, as what they hold.
FieldsOf(x, tag) ==
    LET same == SelectSeq(x.nodes[1].kids, LAMBDA el : el.tag = tag)
    IN  [i \in 1..Len(same) |-> Content(same[i])]

\* C11 (as claimed): cleaning a document with a Profile root gives a document with
\* a Profile root that has no top-level field of an enabled name and, under every
\* other name, the top-level fields of the input with all they hold (text and
\* nested elements, nested loginIpRanges / userLicense / loginHours included).
C11_RemovesExactlyEnabled ==
    (pc = "cleaned" /\ HasProfileRoot(rawXml)) =>
        /\ Len(cleaned.nodes) = 1
        /\ cleaned.nodes[1].tag = "Profile"
        /\ cleaned.nodes[1].attrs = rawXml.nodes[1].attrs
        /\ \A tag \in {el.tag : el \in FieldPool} :
            FieldsOf(cleaned, tag) =
                IF tag \in EnabledNames(options) THEN <<>> ELSE FieldsOf(rawXml, tag)

\* C12 (as claimed): cleaning the cleaned document with the same configuration
\* gives the cleaned document again.
C12_Idempotent == pc = "recleaned" => recleaned = cleaned

\* C13: for a document without a Profile element at its root, cleanProfileXml
\* returns, under every configuration, the very document it was given.
C13_NoProfileRootUnchanged ==
    (pc \in {"cleaned", "recleaned"} /\ ~HasProfileRoot(rawXml)) => cleaned = rawXml

C13_Witness ==
    /\ pc = "cleaned"
    /\ rawXml = XmlText("", <<Leaf("Something", "test")>>)
    /\ options = DEFAULT_CLEAN_OPTIONS
    /\ cleaned = rawXml

\* C14 (as claimed): a clean or write failure costs one outcome only: the k-th
\* retrieved profile has the k-th outcome under its own name, a success or a
\* failure with the error's message, and a completed run has gone through every
\* retrieved profile; and nothing but the rejection of a read makes run() fail.
C14_OnlyReadFailureAborts ==
    /\ pc = "failed" => thrown = "read"
    /\ Returned =>
        /\ Len(results) >= procIdx - 1
        /\ \A i \in 1..(procIdx - 1) :
            /\ results[i].name = retrieved[i].fullName
            /\ results[i].success \/ results[i].error \in {"clean", "write"}
    /\ pc = "done" => procIdx = Len(retrieved) + 1

\* C15: the reads are made one at a time and in chunk order: the calls so far are
\* the first chunks in order, at most one of them has not completed, and while a
\* read is outstanding every earlier read has completed and every entry it
\* answered with a name has been processed into the results.
C15_SequentialReads ==
    /\ Len(raws) <= Len(calls)
    /\ Len(calls) <= Len(raws) + 1
    /\ calls = SubSeq(batches, 1, Len(calls))
    /\ pc = "awaitRead" =>
        /\ Len(calls) = Len(raws) + 1
        /\ Len(svcResults) = Count(AnsweredEntries, LAMBDA e : ~skipped(e))

C15_Witness ==
    /\ pc = "awaitRead"
    /\ Len(calls) = 2
    /\ Len(raws) = 1
    /\ Len(svcResults) = 5

\* C16: what retrieveProfiles returns is, in the order the reads were made and
\* within a read in the order of its answer, one element per retained entry (an
\* entry that is not skipped), carrying the fullName that entry reports and the
\* document built from it: nothing is put in the order of the request.
C16_ConcatenationInAnswerOrder ==
    [][(pc = "batchLoop" /\ pc' = "profileLoop") =>
        LET kept == SelectSeq(AnsweredEntries, LAMBDA e : ~skipped(e))
        IN  /\ Len(retrieved') = Len(kept)
            /\ \A i \in 1..Len(kept) :
                /\ retrieved'[i].fullName = Get(kept[i].item, "fullName").p
                /\ retrieved'[i].xml = buildProfileXml(kept[i].item)]_vars

C16_Witness ==
    /\ Returned
    /\ profileNames = <<"A", "A">>
    /\ raws = <<ArrayRaw(<<Found("B"), Found("A")>>)>>
    /\ NamesOf(retrieved) = <<"B", "A">>

\* C17: a call of removeMetaKeys returns a value of the kind it was given (it does
\* not raise), leaves its argument as it was, also when the argument holds "$" or
\* "type" keys, and returns a tree equal to the argument when the argument holds
\* neither key at any depth.
C17_PureAndTotal ==
    [][(pc = "tree" /\ pc' = "normalized") =>
        /\ tree' = tree
        /\ normalized'.t = tree.t
        /\ NoKeys(tree, MetaKeys) => normalized' = tree]_vars

C17_Witness ==
    /\ pc = "normalized"
    /\ tree = Rec(<<Field("$", Prim("A")), Field("a", Prim("false"))>>)
    /\ normalized = Rec(<<Field("a", Prim("false"))>>)

\* C18: in the result of a completed run the two totals add up to the number of
\* outcomes, totalSuccess is the number of outcomes with a file path and of files
\* written, totalRequested is the length of the identifier list, and a retrieved
\* name has as many outcomes as retrieved profiles, none of them "not found": a
\* profile whose clean or write failed has that failure outcome alone.
C18_TotalsAccount ==
    pc = "done" =>
        /\ ret.totalSuccess + ret.totalFailed = Len(ret.profiles)
        /\ ret.totalSuccess = Count(ret.profiles, LAMBDA r : "filePath" \in DOMAIN r)
        /\ ret.totalSuccess = Len(files)
        /\ ret.totalRequested = Len(profileNames)
        /\ \A i \in 1..Len(retrieved) :
            /\ Count(ret.profiles, LAMBDA r : r.name = retrieved[i].fullName)
                 = Count(retrieved, LAMBDA p : p.fullName = retrieved[i].fullName)
            /\ \A j \in 1..Len(ret.profiles) :
                ret.profiles[j] # Failure(retrieved[i].fullName, NOT_FOUND_ERROR)

C18_Witness ==
    /\ pc = "done"
    /\ profileNames = <<"A", "B">>
    /\ ret = [profiles |-> <<Failure("A", "write"), Success("B", FilePath("B"))>>,
              totalRequested |-> 2, totalSuccess |-> 1, totalFailed |-> 1]

====
